---- MODULE Spec2Model ----
(***************************************************************************)
(* Model of the Etherscan request builder (src/lib.rs).                    *)
(*                                                                         *)
(* An EtherscanRequest is a record of fifteen optional fields.  It is      *)
(* created by one of nineteen endpoint-family constructors or by           *)
(* Default::default(), extended by the three with_X setters, and consumed  *)
(* by build, which formats the fields into one string and hands it to      *)
(* reqwest::get.                                                           *)
(*                                                                         *)
(* Text is modelled as a sequence of tokens.  A token is either a literal  *)
(* piece of one of build's format strings ("&address=", "0x", ","), one    *)
(* character of a formatted number or enum tag, or a caller-supplied       *)
(* string (url, apikey) copied verbatim.  Cat flattens tokens into the     *)
(* string that is passed to reqwest::get.                                  *)
(***************************************************************************)
EXTENDS Integers, Sequences, FiniteSets, TLC

VARIABLES
    pc,       \* "new": no record yet; "live": a record exists; "done": build has consumed it
    req,      \* Option<EtherscanRequest>: <<>> or <<record>>
    call,     \* history: <<constructor name, argument tuple>> of the constructor that made req
    setters,  \* history: the names of the with_X setters that have been applied
    out,      \* the token sequence build formatted (the argument of reqwest::get before flattening)
    gets,     \* the URLs passed to reqwest::get, in order
    result    \* "none" before build; "Ok" or "Err": what build returned

vars == <<pc, req, call, setters, out, gets, result>>

----------------------------------------------------------------------------
(* Option<T> *)

None == <<>>
Some(x) == <<x>>
IsSome(o) == o # <<>>
Unwrap(o) == o[1]
Opt(S) == {None} \cup {Some(x) : x \in S}

----------------------------------------------------------------------------
(* Bounds and input sets *)

\* Width of the unsigned integer type in the model (U256 in the source).
UBits == 8

MaxU256 == 2 ^ UBits - 1
U256 == 0 .. MaxU256

\* Longest address list given to account_balance_multi.
MaxAddrs == 2

AddrVals == {0, 171}
BlockVals == {1, 2}
PageVals == {10}
Urls == {"http://x", "http://y"}
ApiKeys == {"K"}

AddrLists == UNION {[1 .. n -> AddrVals] : n \in 0 .. MaxAddrs}

----------------------------------------------------------------------------
(* The enums.  A variant is the character sequence of its Rust name, so    *)
(* that serde's rename_all = "lowercase" can be applied to it.             *)

ModUnknown == <<"U", "n", "k", "n", "o", "w", "n">>
Account == <<"A", "c", "c", "o", "u", "n", "t">>
Contract == <<"C", "o", "n", "t", "r", "a", "c", "t">>
Transaction == <<"T", "r", "a", "n", "s", "a", "c", "t", "i", "o", "n">>
Block == <<"B", "l", "o", "c", "k">>
Stats == <<"S", "t", "a", "t", "s">>

EtherscanModule == {ModUnknown, Account, Contract, Transaction, Block, Stats}

Ascending == <<"A", "s", "c", "e", "n", "d", "i", "n", "g">>
Descending == <<"D", "e", "s", "c", "e", "n", "d", "i", "n", "g">>

EtherscanSort == {Ascending, Descending}

ActUnknown == <<"U", "n", "k", "n", "o", "w", "n">>
Balance == <<"B", "a", "l", "a", "n", "c", "e">>
BalanceMulti == <<"B", "a", "l", "a", "n", "c", "e", "M", "u", "l", "t", "i">>
TxList == <<"T", "x", "L", "i", "s", "t">>
TxListInternal == <<"T", "x", "L", "i", "s", "t", "I", "n", "t", "e", "r", "n", "a", "l">>
TokenTx == <<"T", "o", "k", "e", "n", "T", "x">>
TokenNftTx == <<"T", "o", "k", "e", "n", "N", "f", "t", "T", "x">>
TokenBalance == <<"T", "o", "k", "e", "n", "B", "a", "l", "a", "n", "c", "e">>
GetABI == <<"G", "e", "t", "A", "B", "I">>
GetSourceCode == <<"G", "e", "t", "S", "o", "u", "r", "c", "e", "C", "o", "d", "e">>
GetStatus == <<"G", "e", "t", "S", "t", "a", "t", "u", "s">>
GetTxReceiptStatus == <<"G", "e", "t", "T", "x", "R", "e", "c", "e", "i", "p", "t", "S", "t", "a", "t", "u", "s">>
GetBlockReward == <<"G", "e", "t", "B", "l", "o", "c", "k", "R", "e", "w", "a", "r", "d">>
GetBlockCountdown == <<"G", "e", "t", "B", "l", "o", "c", "k", "C", "o", "u", "n", "t", "d", "o", "w", "n">>
GetBlockNoByTime == <<"G", "e", "t", "B", "l", "o", "c", "k", "N", "o", "B", "y", "T", "i", "m", "e">>
TokenSupply == <<"T", "o", "k", "e", "n", "S", "u", "p", "p", "l", "y">>
EthSupply == <<"E", "t", "h", "S", "u", "p", "p", "l", "y">>
EthSupply2 == <<"E", "t", "h", "S", "u", "p", "p", "l", "y", "2">>
EthPrice == <<"E", "t", "h", "P", "r", "i", "c", "e">>
NodeCount == <<"N", "o", "d", "e", "C", "o", "u", "n", "t">>

EtherscanAction ==
    {ActUnknown, Balance, BalanceMulti, TxList, TxListInternal, TokenTx, TokenNftTx,
     TokenBalance, GetABI, GetSourceCode, GetStatus, GetTxReceiptStatus, GetBlockReward,
     GetBlockCountdown, GetBlockNoByTime, TokenSupply, EthSupply, EthSupply2, EthPrice,
     NodeCount}

Latest == <<"L", "a", "t", "e", "s", "t">>

EtherscanTag == {Latest}

Raw == <<"R", "a", "w">>

EtherscanFormat == {Raw}

----------------------------------------------------------------------------
(* Text *)

RECURSIVE Cat(_)
Cat(toks) == IF toks = <<>> THEN "" ELSE Head(toks) \o Cat(Tail(toks))

UpperChars ==
    <<"A", "B", "C", "D", "E", "F", "G", "H", "I", "J", "K", "L", "M", "N", "O", "P", "Q",
      "R", "S", "T", "U", "V", "W", "X", "Y", "Z">>

LowerChars ==
    <<"a", "b", "c", "d", "e", "f", "g", "h", "i", "j", "k", "l", "m", "n", "o", "p", "q",
      "r", "s", "t", "u", "v", "w", "x", "y", "z">>

ToAsciiLowercase(c) ==
    IF \E i \in DOMAIN UpperChars : UpperChars[i] = c
    THEN LowerChars[CHOOSE i \in DOMAIN UpperChars : UpperChars[i] = c]
    ELSE c

\* #[serde(rename_all = "lowercase")]: the variant's name, lowercased.
RenameAllLowercase(name) == [i \in DOMAIN name |-> ToAsciiLowercase(name[i])]

DecDigits == <<"0", "1", "2", "3", "4", "5", "6", "7", "8", "9">>

UpperHexDigits ==
    <<"0", "1", "2", "3", "4", "5", "6", "7", "8", "9", "A", "B", "C", "D", "E", "F">>

LowerHexDigits ==
    <<"0", "1", "2", "3", "4", "5", "6", "7", "8", "9", "a", "b", "c", "d", "e", "f">>

\* The digits of v in the given base, most significant first, "0" for zero.
RECURSIVE Radix(_, _)
Radix(v, digits) ==
    IF v < Len(digits)
    THEN <<digits[v + 1]>>
    ELSE Append(Radix(v \div Len(digits), digits), digits[(v % Len(digits)) + 1])

\* Fault variant of FmtUpperHex: {v:x} instead of {v:X}.
FmtLowerHex(v) == Radix(v, LowerHexDigits)

\* {v:X}
FmtUpperHex(v) == Radix(v, UpperHexDigits)

\* {v}
FmtDisplay(v) == Radix(v, DecDigits)

\* serde_plain::to_string of each enum: Ok(tag) when the variant has a tag.
Ok(v) == [ok |-> TRUE, val |-> v]
Err == [ok |-> FALSE, val |-> <<>>]

SerModule(m) == IF m \in EtherscanModule THEN Ok(RenameAllLowercase(m)) ELSE Err

SerAction(a) == IF a \in EtherscanAction THEN Ok(RenameAllLowercase(a)) ELSE Err

SerTag(t) == IF t \in EtherscanTag THEN Ok(RenameAllLowercase(t)) ELSE Err

SerFormat(f) == IF f \in EtherscanFormat THEN Ok(RenameAllLowercase(f)) ELSE Err

SerSort(s) ==
    IF s = Ascending THEN Ok(<<"a", "s", "c">>)
    ELSE IF s = Descending THEN Ok(<<"d", "e", "s", "c">>)
    ELSE Err

----------------------------------------------------------------------------
(* The record and its constructors *)

Default ==
    [url |-> None, module_action |-> None, contractaddress |-> None, address |-> None,
     tag |-> None, startblock |-> None, endblock |-> None, page |-> None, offset |-> None,
     sort |-> None, txhash |-> None, blockno |-> None, timestamp |-> None, format |-> None,
     apikey |-> None]

with_url(self, url) == [self EXCEPT !.url = Some(url)]

\* Fault variant of with_apikey: the value is stored in the url field.
with_apikey_into_url(self, apikey) == [self EXCEPT !.url = Some(apikey)]

with_apikey(self, apikey) == [self EXCEPT !.apikey = Some(apikey)]

with_format(self, format) == [self EXCEPT !.format = Some(format)]

account_balance(address, tag) ==
    [Default EXCEPT !.module_action = Some(<<Account, Balance>>),
                    !.address = Some(<<address>>),
                    !.tag = tag]

account_balance_multi(addresses, tag) ==
    [Default EXCEPT !.module_action = Some(<<Account, BalanceMulti>>),
                    !.address = Some(addresses),
                    !.tag = tag]

account_tx_list(address, startblock, endblock, page, offset, sort) ==
    [Default EXCEPT !.module_action = Some(<<Account, TxList>>),
                    !.address = Some(<<address>>),
                    !.startblock = startblock,
                    !.endblock = endblock,
                    !.page = page,
                    !.offset = offset,
                    !.sort = sort]

account_tx_list_internal(address, startblock, endblock, page, offset, sort) ==
    [Default EXCEPT !.module_action = Some(<<Account, TxListInternal>>),
                    !.address = Some(<<address>>),
                    !.startblock = startblock,
                    !.endblock = endblock,
                    !.page = page,
                    !.offset = offset,
                    !.sort = sort]

account_tx_list_internal_hash(txhash) ==
    [Default EXCEPT !.module_action = Some(<<Account, TxListInternal>>),
                    !.txhash = Some(txhash)]

account_token_tx(contract_address, account_address, startblock, endblock, page, offset, sort) ==
    [Default EXCEPT !.module_action = Some(<<Account, TokenTx>>),
                    !.contractaddress = contract_address,
                    !.address = IF IsSome(account_address)
                                THEN Some(<<Unwrap(account_address)>>)
                                ELSE None,
                    !.page = page,
                    !.offset = offset,
                    !.startblock = startblock,
                    !.endblock = endblock,
                    !.sort = sort]

account_token_nft_tx(contract_address, address, startblock, endblock, page, offset, sort) ==
    [Default EXCEPT !.module_action = Some(<<Account, TokenNftTx>>),
                    !.contractaddress = Some(contract_address),
                    !.address = Some(<<address>>),
                    !.startblock = startblock,
                    !.endblock = endblock,
                    !.page = page,
                    !.offset = offset,
                    !.sort = sort]

account_token_balance(account_address, contract_address, tag) ==
    [Default EXCEPT !.module_action = Some(<<Account, TokenBalance>>),
                    !.contractaddress = Some(contract_address),
                    !.address = Some(<<account_address>>),
                    !.tag = tag]

\* Fault variant of contract_get_abi: the action of the neighbouring constructor.
contract_get_abi_wrong_action(contract_address) ==
    [Default EXCEPT !.module_action = Some(<<Contract, GetSourceCode>>),
                    !.address = Some(<<contract_address>>)]

contract_get_abi(contract_address) ==
    [Default EXCEPT !.module_action = Some(<<Contract, GetABI>>),
                    !.address = Some(<<contract_address>>)]

contract_get_source_code(contract_address) ==
    [Default EXCEPT !.module_action = Some(<<Contract, GetSourceCode>>),
                    !.address = Some(<<contract_address>>)]

transaction_get_status(transaction_hash) ==
    [Default EXCEPT !.module_action = Some(<<Transaction, GetStatus>>),
                    !.txhash = Some(transaction_hash)]

transaction_get_receipt_status(transaction_hash) ==
    [Default EXCEPT !.module_action = Some(<<Transaction, GetTxReceiptStatus>>),
                    !.txhash = Some(transaction_hash)]

block_get_countdown(block_number) ==
    [Default EXCEPT !.module_action = Some(<<Block, GetBlockCountdown>>),
                    !.blockno = Some(block_number)]

block_get_number_by_timestamp(timestamp) ==
    [Default EXCEPT !.module_action = Some(<<Block, GetBlockNoByTime>>),
                    !.timestamp = Some(timestamp)]

\* Fault variant of stats_token_supply: the contract address goes to the address field.
stats_token_supply_as_address(contract_address) ==
    [Default EXCEPT !.module_action = Some(<<Stats, TokenSupply>>),
                    !.address = Some(<<contract_address>>)]

stats_token_supply(contract_address) ==
    [Default EXCEPT !.module_action = Some(<<Stats, TokenSupply>>),
                    !.contractaddress = Some(contract_address)]

stats_eth_supply == [Default EXCEPT !.module_action = Some(<<Stats, EthSupply>>)]

stats_eth2_supply == [Default EXCEPT !.module_action = Some(<<Stats, EthSupply2>>)]

stats_eth_price == [Default EXCEPT !.module_action = Some(<<Stats, EthPrice>>)]

stats_node_count == [Default EXCEPT !.module_action = Some(<<Stats, NodeCount>>)]

----------------------------------------------------------------------------
(* build: the sixteen arguments of the format string, in source order.     *)
(* Each is Ok(tokens) or, where a `?` follows serde_plain::to_string, Err. *)

ArgUrl(url) == IF IsSome(url) THEN Ok(<<Unwrap(url)>>) ELSE Ok(<<>>)

ArgModule(module_action) ==
    IF IsSome(module_action)
    THEN LET s == SerModule(Unwrap(module_action)[1])
         IN  IF s.ok THEN Ok(<<"?module=">> \o s.val) ELSE Err
    ELSE Ok(<<>>)

ArgAction(module_action) ==
    IF IsSome(module_action)
    THEN LET s == SerAction(Unwrap(module_action)[2])
         IN  IF s.ok THEN Ok(<<"&action=">> \o s.val) ELSE Err
    ELSE Ok(<<>>)

ArgContractAddress(contractaddress) ==
    IF IsSome(contractaddress)
    THEN Ok(<<"&contractaddress=", "0x">> \o FmtUpperHex(Unwrap(contractaddress)))
    ELSE Ok(<<>>)

\* Fault variant of JoinHex: a comma after every element, the last included.
RECURSIVE JoinHex_trailing(_)
JoinHex_trailing(list) ==
    IF list = <<>> THEN <<>>
    ELSE <<"0x">> \o FmtUpperHex(list[1]) \o <<",">> \o JoinHex_trailing(Tail(list))

\* .iter().map(|x| format!("0x{x:X}")).collect::<Vec<_>>().join(",")
RECURSIVE JoinHex(_)
JoinHex(list) ==
    IF list = <<>> THEN <<>>
    ELSE IF Len(list) = 1 THEN <<"0x">> \o FmtUpperHex(list[1])
    ELSE <<"0x">> \o FmtUpperHex(list[1]) \o <<",">> \o JoinHex(Tail(list))

\* Fault variant of ArgAddress: the addresses are joined without the 0x prefix.
RECURSIVE JoinBare(_)
JoinBare(list) ==
    IF list = <<>> THEN <<>>
    ELSE IF Len(list) = 1 THEN FmtUpperHex(list[1])
    ELSE FmtUpperHex(list[1]) \o <<",">> \o JoinBare(Tail(list))

ArgAddress_no_prefix(address) ==
    IF IsSome(address) THEN Ok(<<"&address=">> \o JoinBare(Unwrap(address))) ELSE Ok(<<>>)

ArgAddress(address) ==
    IF IsSome(address) THEN Ok(<<"&address=">> \o JoinHex(Unwrap(address))) ELSE Ok(<<>>)

\* Fault variant of ArgTag: an absent tag is emitted as a key with an empty value.
ArgTag_empty_key(tag) ==
    IF IsSome(tag)
    THEN LET s == SerTag(Unwrap(tag)) IN IF s.ok THEN Ok(<<"&tag=">> \o s.val) ELSE Err
    ELSE Ok(<<"&tag=">>)

ArgTag(tag) ==
    IF IsSome(tag)
    THEN LET s == SerTag(Unwrap(tag)) IN IF s.ok THEN Ok(<<"&tag=">> \o s.val) ELSE Err
    ELSE Ok(<<>>)

ArgPage(page) ==
    IF IsSome(page) THEN Ok(<<"&page=">> \o FmtDisplay(Unwrap(page))) ELSE Ok(<<>>)

ArgOffset(offset) ==
    IF IsSome(offset) THEN Ok(<<"&offset=">> \o FmtDisplay(Unwrap(offset))) ELSE Ok(<<>>)

ArgStartBlock(startblock) ==
    IF IsSome(startblock)
    THEN Ok(<<"&startblock=">> \o FmtDisplay(Unwrap(startblock)))
    ELSE Ok(<<>>)

ArgEndBlock(endblock) ==
    IF IsSome(endblock) THEN Ok(<<"&endblock=">> \o FmtDisplay(Unwrap(endblock))) ELSE Ok(<<>>)

ArgSort(sort) ==
    IF IsSome(sort)
    THEN LET s == SerSort(Unwrap(sort)) IN IF s.ok THEN Ok(<<"&sort=">> \o s.val) ELSE Err
    ELSE Ok(<<>>)

ArgTxHash(txhash) ==
    IF IsSome(txhash) THEN Ok(<<"&txhash=", "0x">> \o FmtUpperHex(Unwrap(txhash))) ELSE Ok(<<>>)

ArgBlockNo(blockno) ==
    IF IsSome(blockno) THEN Ok(<<"&blockno=">> \o FmtDisplay(Unwrap(blockno))) ELSE Ok(<<>>)

ArgTimestamp(timestamp) ==
    IF IsSome(timestamp)
    THEN Ok(<<"&timestamp=">> \o FmtDisplay(Unwrap(timestamp)))
    ELSE Ok(<<>>)

ArgFormat(format) ==
    IF IsSome(format)
    THEN LET s == SerFormat(Unwrap(format)) IN IF s.ok THEN Ok(<<"&format=">> \o s.val) ELSE Err
    ELSE Ok(<<>>)

ArgApikey(apikey) == IF IsSome(apikey) THEN Ok(<<"&apikey=", Unwrap(apikey)>>) ELSE Ok(<<>>)

\* Fault variant of FormatArgs: the arguments in the order of the struct's fields.
FormatArgs_struct_order(self) ==
    <<ArgUrl(self.url), ArgModule(self.module_action), ArgAction(self.module_action),
      ArgContractAddress(self.contractaddress), ArgAddress(self.address), ArgTag(self.tag),
      ArgStartBlock(self.startblock), ArgEndBlock(self.endblock), ArgPage(self.page),
      ArgOffset(self.offset), ArgSort(self.sort), ArgTxHash(self.txhash),
      ArgBlockNo(self.blockno), ArgTimestamp(self.timestamp), ArgFormat(self.format),
      ArgApikey(self.apikey)>>

\* The arguments in the order the format string consumes them.
FormatArgs(self) ==
    <<ArgUrl(self.url), ArgModule(self.module_action), ArgAction(self.module_action),
      ArgContractAddress(self.contractaddress), ArgAddress(self.address), ArgTag(self.tag),
      ArgPage(self.page), ArgOffset(self.offset), ArgStartBlock(self.startblock),
      ArgEndBlock(self.endblock), ArgSort(self.sort), ArgTxHash(self.txhash),
      ArgBlockNo(self.blockno), ArgTimestamp(self.timestamp), ArgFormat(self.format),
      ArgApikey(self.apikey)>>

RECURSIVE Flatten(_)
Flatten(parts) == IF parts = <<>> THEN <<>> ELSE Head(parts).val \o Flatten(Tail(parts))

\* format!(...): Err as soon as one argument's `?` fails, else the formatted text.
Format(self) ==
    LET args == FormatArgs(self)
    IN  IF \E i \in DOMAIN args : ~args[i].ok THEN Err ELSE Ok(Flatten(args))

\* Fault variant of Dispatch: the request is issued a second time.
Dispatch_retry(text) == <<Cat(text), Cat(text)>>

\* The requests handed to reqwest::get by one call of build on a formatted text.
Dispatch(text) == <<Cat(text)>>

----------------------------------------------------------------------------
(* Actions *)

\* What every constructor call does: the new record becomes the live one.
Construct(name, args, r) ==
    /\ pc' = "live"
    /\ req' = Some(r)
    /\ call' = <<name, args>>
    /\ UNCHANGED <<setters, out, gets, result>>

New_default ==
    /\ pc = "new"
    /\ Construct("default", <<>>, Default)

New_account_balance ==
    \E a \in AddrVals, t \in Opt(EtherscanTag) :
        /\ pc = "new"
        /\ Construct("account_balance", <<a, t>>, account_balance(a, t))

New_account_balance_multi ==
    \E l \in AddrLists, t \in Opt(EtherscanTag) :
        /\ pc = "new"
        /\ Construct("account_balance_multi", <<l, t>>, account_balance_multi(l, t))

New_account_tx_list ==
    \E a \in AddrVals, sb \in Opt(BlockVals), eb \in Opt(BlockVals), p \in Opt(PageVals),
       o \in Opt(PageVals), s \in Opt(EtherscanSort) :
        /\ pc = "new"
        /\ Construct("account_tx_list", <<a, sb, eb, p, o, s>>,
                     account_tx_list(a, sb, eb, p, o, s))

New_account_tx_list_internal ==
    \E a \in AddrVals, sb \in Opt(BlockVals), eb \in Opt(BlockVals), p \in Opt(PageVals),
       o \in Opt(PageVals), s \in Opt(EtherscanSort) :
        /\ pc = "new"
        /\ Construct("account_tx_list_internal", <<a, sb, eb, p, o, s>>,
                     account_tx_list_internal(a, sb, eb, p, o, s))

New_account_tx_list_internal_hash ==
    \E h \in AddrVals :
        /\ pc = "new"
        /\ Construct("account_tx_list_internal_hash", <<h>>, account_tx_list_internal_hash(h))

New_account_token_tx ==
    \E c \in Opt(AddrVals), a \in Opt(AddrVals), sb \in Opt(BlockVals), eb \in Opt(BlockVals),
       p \in Opt(PageVals), o \in Opt(PageVals), s \in Opt(EtherscanSort) :
        /\ pc = "new"
        /\ Construct("account_token_tx", <<c, a, sb, eb, p, o, s>>,
                     account_token_tx(c, a, sb, eb, p, o, s))

New_account_token_nft_tx ==
    \E c \in AddrVals, a \in AddrVals, sb \in Opt(BlockVals), eb \in Opt(BlockVals),
       p \in Opt(PageVals), o \in Opt(PageVals), s \in Opt(EtherscanSort) :
        /\ pc = "new"
        /\ Construct("account_token_nft_tx", <<c, a, sb, eb, p, o, s>>,
                     account_token_nft_tx(c, a, sb, eb, p, o, s))

New_account_token_balance ==
    \E a \in AddrVals, c \in AddrVals, t \in Opt(EtherscanTag) :
        /\ pc = "new"
        /\ Construct("account_token_balance", <<a, c, t>>, account_token_balance(a, c, t))

New_contract_get_abi ==
    \E c \in AddrVals :
        /\ pc = "new"
        /\ Construct("contract_get_abi", <<c>>, contract_get_abi(c))

New_contract_get_source_code ==
    \E c \in AddrVals :
        /\ pc = "new"
        /\ Construct("contract_get_source_code", <<c>>, contract_get_source_code(c))

New_transaction_get_status ==
    \E h \in AddrVals :
        /\ pc = "new"
        /\ Construct("transaction_get_status", <<h>>, transaction_get_status(h))

New_transaction_get_receipt_status ==
    \E h \in AddrVals :
        /\ pc = "new"
        /\ Construct("transaction_get_receipt_status", <<h>>, transaction_get_receipt_status(h))

New_block_get_countdown ==
    \E n \in BlockVals :
        /\ pc = "new"
        /\ Construct("block_get_countdown", <<n>>, block_get_countdown(n))

New_block_get_number_by_timestamp ==
    \E t \in BlockVals :
        /\ pc = "new"
        /\ Construct("block_get_number_by_timestamp", <<t>>, block_get_number_by_timestamp(t))

New_stats_token_supply ==
    \E c \in AddrVals :
        /\ pc = "new"
        /\ Construct("stats_token_supply", <<c>>, stats_token_supply(c))

New_stats_eth_supply ==
    /\ pc = "new"
    /\ Construct("stats_eth_supply", <<>>, stats_eth_supply)

New_stats_eth2_supply ==
    /\ pc = "new"
    /\ Construct("stats_eth2_supply", <<>>, stats_eth2_supply)

New_stats_eth_price ==
    /\ pc = "new"
    /\ Construct("stats_eth_price", <<>>, stats_eth_price)

New_stats_node_count ==
    /\ pc = "new"
    /\ Construct("stats_node_count", <<>>, stats_node_count)

\* What every setter call does: self is moved in and the changed record moved out.
Chain(name, r) ==
    /\ req' = Some(r)
    /\ setters' = setters \cup {name}
    /\ UNCHANGED <<pc, call, out, gets, result>>

WithUrl ==
    \E u \in Urls :
        /\ pc = "live"
        /\ Chain("with_url", with_url(Unwrap(req), u))

WithApikey ==
    \E k \in ApiKeys :
        /\ pc = "live"
        /\ Chain("with_apikey", with_apikey(Unwrap(req), k))

WithFormat ==
    \E f \in EtherscanFormat :
        /\ pc = "live"
        /\ Chain("with_format", with_format(Unwrap(req), f))

\* build(self): consumes the record; on Ok the text has been passed to reqwest::get.
Build ==
    /\ pc = "live"
    /\ LET f == Format(Unwrap(req))
       IN  IF f.ok
           THEN /\ out' = f.val
                /\ gets' = gets \o Dispatch(f.val)
                /\ result' = "Ok"
           ELSE /\ out' = out
                /\ gets' = gets
                /\ result' = "Err"
    /\ pc' = "done"
    /\ req' = None
    /\ UNCHANGED <<call, setters>>

Init ==
    /\ pc = "new"
    /\ req = None
    /\ call = <<>>
    /\ setters = {}
    /\ out = <<>>
    /\ gets = <<>>
    /\ result = "none"

Next ==
    \/ New_default
    \/ New_account_balance
    \/ New_account_balance_multi
    \/ New_account_tx_list
    \/ New_account_tx_list_internal
    \/ New_account_tx_list_internal_hash
    \/ New_account_token_tx
    \/ New_account_token_nft_tx
    \/ New_account_token_balance
    \/ New_contract_get_abi
    \/ New_contract_get_source_code
    \/ New_transaction_get_status
    \/ New_transaction_get_receipt_status
    \/ New_block_get_countdown
    \/ New_block_get_number_by_timestamp
    \/ New_stats_token_supply
    \/ New_stats_eth_supply
    \/ New_stats_eth2_supply
    \/ New_stats_eth_price
    \/ New_stats_node_count
    \/ WithUrl
    \/ WithApikey
    \/ WithFormat
    \/ Build

Spec == Init /\ [][Next]_vars

----------------------------------------------------------------------------
(* The same program with every integer argument drawn from the whole       *)
(* range of the integer type, for the claims about number formatting.      *)

Wide_stats_token_supply ==
    \E v \in U256 :
        /\ pc = "new"
        /\ Construct("stats_token_supply", <<v>>, stats_token_supply(v))

Wide_account_balance ==
    \E v \in U256 :
        /\ pc = "new"
        /\ Construct("account_balance", <<v, None>>, account_balance(v, None))

Wide_transaction_get_status ==
    \E v \in U256 :
        /\ pc = "new"
        /\ Construct("transaction_get_status", <<v>>, transaction_get_status(v))

Wide_block_get_countdown ==
    \E v \in U256 :
        /\ pc = "new"
        /\ Construct("block_get_countdown", <<v>>, block_get_countdown(v))

Wide_block_get_number_by_timestamp ==
    \E v \in U256 :
        /\ pc = "new"
        /\ Construct("block_get_number_by_timestamp", <<v>>, block_get_number_by_timestamp(v))

Wide_account_tx_list ==
    \E v \in U256 :
        /\ pc = "new"
        /\ Construct("account_tx_list", <<v, Some(v), Some(v), Some(v), Some(v), None>>,
                     account_tx_list(v, Some(v), Some(v), Some(v), Some(v), None))

NextFmt ==
    \/ Wide_stats_token_supply
    \/ Wide_account_balance
    \/ Wide_transaction_get_status
    \/ Wide_block_get_countdown
    \/ Wide_block_get_number_by_timestamp
    \/ Wide_account_tx_list
    \/ Build

SpecFmt == Init /\ [][NextFmt]_vars

----------------------------------------------------------------------------
(* Reading a formatted text *)

\* The keys of the query, in the order the specification lists them.
KeyTokens ==
    <<"?module=", "&action=", "&contractaddress=", "&address=", "&tag=", "&page=",
      "&offset=", "&startblock=", "&endblock=", "&sort=", "&txhash=", "&blockno=",
      "&timestamp=", "&format=", "&apikey=">>

IsKey(t) == \E i \in DOMAIN KeyTokens : KeyTokens[i] = t

KeyIndex(t) == CHOOSE i \in DOMAIN KeyTokens : KeyTokens[i] = t

Positions(toks, t) == {i \in DOMAIN toks : toks[i] = t}

KeyPositions(toks) == {i \in DOMAIN toks : IsKey(toks[i])}

KeysIn(toks) == {toks[i] : i \in KeyPositions(toks)}

SetMin(S) == CHOOSE x \in S : \A y \in S : x <= y

\* The tokens that follow key k up to the next key (or the end of the text).
ValueOf(toks, k) ==
    IF Positions(toks, k) = {} THEN <<>>
    ELSE LET i == SetMin(Positions(toks, k))
             later == {j \in KeyPositions(toks) : j > i}
             e == IF later = {} THEN Len(toks) ELSE SetMin(later) - 1
         IN  SubSeq(toks, i + 1, e)

\* The tokens that precede the first key: the base URL.
UrlPart(toks) ==
    IF KeyPositions(toks) = {} THEN toks
    ELSE SubSeq(toks, 1, SetMin(KeyPositions(toks)) - 1)

Family == call[1]
Args == call[2]

Built == pc = "done"

\* The module and action tags of each family's row of the endpoint table.
FamilyPair ==
    [account_balance |-> <<"account", "balance">>,
     account_balance_multi |-> <<"account", "balancemulti">>,
     account_tx_list |-> <<"account", "txlist">>,
     account_tx_list_internal |-> <<"account", "txlistinternal">>,
     account_tx_list_internal_hash |-> <<"account", "txlistinternal">>,
     account_token_tx |-> <<"account", "tokentx">>,
     account_token_nft_tx |-> <<"account", "tokennfttx">>,
     account_token_balance |-> <<"account", "tokenbalance">>,
     contract_get_abi |-> <<"contract", "getabi">>,
     contract_get_source_code |-> <<"contract", "getsourcecode">>,
     transaction_get_status |-> <<"transaction", "getstatus">>,
     transaction_get_receipt_status |-> <<"transaction", "gettxreceiptstatus">>,
     block_get_countdown |-> <<"block", "getblockcountdown">>,
     block_get_number_by_timestamp |-> <<"block", "getblocknobytime">>,
     stats_token_supply |-> <<"stats", "tokensupply">>,
     stats_eth_supply |-> <<"stats", "ethsupply">>,
     stats_eth2_supply |-> <<"stats", "ethsupply2">>,
     stats_eth_price |-> <<"stats", "ethprice">>,
     stats_node_count |-> <<"stats", "nodecount">>]

----------------------------------------------------------------------------
(* C1 *)

\* C1: every family constructor builds the (Module, Action) pair of its row of the
\* endpoint table, never Unknown or GetBlockReward, and build renders the pair as
\* ?module=<m>&action=<a> with the lowercase variant names, right after the base URL.
C1_FamilyPair ==
    /\ (pc = "live" /\ Family # "default") =>
           /\ Family \in DOMAIN FamilyPair
           /\ IsSome(Unwrap(req).module_action)
           /\ Unwrap(Unwrap(req).module_action)[1] # ModUnknown
           /\ Unwrap(Unwrap(req).module_action)[2] \notin {ActUnknown, GetBlockReward}
           /\ Cat(RenameAllLowercase(Unwrap(Unwrap(req).module_action)[1]))
                  = FamilyPair[Family][1]
           /\ Cat(RenameAllLowercase(Unwrap(Unwrap(req).module_action)[2]))
                  = FamilyPair[Family][2]
    /\ (Built /\ Family # "default") =>
           /\ Cardinality(Positions(out, "?module=")) = 1
           /\ Cardinality(Positions(out, "&action=")) = 1
           /\ Positions(out, "?module=") = {Len(UrlPart(out)) + 1}
           /\ Cat(ValueOf(out, "?module=")) = FamilyPair[Family][1]
           /\ Cat(ValueOf(out, "&action=")) = FamilyPair[Family][2]
           /\ Positions(out, "&action=")
                  = {Len(UrlPart(out)) + 2 + Len(ValueOf(out, "?module="))}

C1_Witness ==
    /\ Built
    /\ Family = "account_tx_list_internal_hash"
    /\ Cat(UrlPart(out)) = "http://x"
    /\ Cat(SubSeq(out, 2, 24)) = "?module=account&action=txlistinternal"
    /\ Cat(ValueOf(out, "&txhash=")) = "0xAB"

----------------------------------------------------------------------------
(* C2 *)

Req(k) == [key |-> k, optional |-> FALSE]
Optl(k) == [key |-> k, optional |-> TRUE]

Paging ==
    <<Optl("&startblock="), Optl("&endblock="), Optl("&page="), Optl("&offset="),
      Optl("&sort=")>>

\* The endpoint table: for each family, the key of each constructor argument in
\* argument order, reading "contract address" as the contractaddress key.
TableParams ==
    [account_balance |-> <<Req("&address="), Optl("&tag=")>>,
     account_balance_multi |-> <<Req("&address="), Optl("&tag=")>>,
     account_tx_list |-> <<Req("&address=")>> \o Paging,
     account_tx_list_internal |-> <<Req("&address=")>> \o Paging,
     account_tx_list_internal_hash |-> <<Req("&txhash=")>>,
     account_token_tx |-> <<Optl("&contractaddress="), Optl("&address=")>> \o Paging,
     account_token_nft_tx |-> <<Req("&contractaddress="), Req("&address=")>> \o Paging,
     account_token_balance |-> <<Req("&address="), Req("&contractaddress="), Optl("&tag=")>>,
     contract_get_abi |-> <<Req("&contractaddress=")>>,
     contract_get_source_code |-> <<Req("&contractaddress=")>>,
     transaction_get_status |-> <<Req("&txhash=")>>,
     transaction_get_receipt_status |-> <<Req("&txhash=")>>,
     block_get_countdown |-> <<Req("&blockno=")>>,
     block_get_number_by_timestamp |-> <<Req("&timestamp=")>>,
     stats_token_supply |-> <<Req("&contractaddress=")>>,
     stats_eth_supply |-> <<>>,
     stats_eth2_supply |-> <<>>,
     stats_eth_price |-> <<>>,
     stats_node_count |-> <<>>]

\* The same table with the contract address of the two contract families under the
\* address key.
CodeParams ==
    [TableParams EXCEPT !.contract_get_abi = <<Req("&address=")>>,
                        !.contract_get_source_code = <<Req("&address=")>>]

\* The keys of the arguments that were supplied to the constructor.
SuppliedKeys(params, args) ==
    {params[i].key : i \in {j \in DOMAIN params : ~params[j].optional \/ IsSome(args[j])}}

SetterKeys ==
    {k \in {"&format=", "&apikey="} :
        \/ k = "&format=" /\ "with_format" \in setters
        \/ k = "&apikey=" /\ "with_apikey" \in setters}

ExactKeys(table) ==
    (Built /\ Family # "default") =>
        /\ Len(table[Family]) = Len(Args)
        /\ KeysIn(out) \ {"?module=", "&action="}
               = SuppliedKeys(table[Family], Args) \cup SetterKeys
        /\ ("with_url" \notin setters) => UrlPart(out) = <<>>

\* C2 as stated: the rendered parameter keys are exactly the row's required parameters
\* plus the supplied optional ones, with the contract address of contract_get_abi and
\* contract_get_source_code under contractaddress.
C2_Original == ExactKeys(TableParams)

\* C2 amended: the rendered parameter keys are exactly the row's required parameters
\* plus the supplied optional ones (and format/apikey/url only when their setter was
\* called), where contract_get_abi and contract_get_source_code render their contract
\* address under the address key.
C2_ExactKeys ==
    /\ ExactKeys(CodeParams)
    /\ (Built /\ Family \in {"contract_get_abi", "contract_get_source_code"}) =>
           /\ ValueOf(out, "&address=") = <<"0x">> \o FmtUpperHex(Args[1])
           /\ Positions(out, "&contractaddress=") = {}

C2_Witness ==
    /\ Built
    /\ Family = "contract_get_abi"
    /\ Args = <<171>>
    /\ setters = {}
    /\ Cat(out) = "?module=contract&action=getabi&address=0xAB"

----------------------------------------------------------------------------
(* C3 *)

\* C3: in the text build formats, the base URL comes first and the keys that are
\* present appear in the order module, action, contractaddress, address, tag, page,
\* offset, startblock, endblock, sort, txhash, blockno, timestamp, format, apikey,
\* each at most once, whatever arguments were supplied and in whatever order the
\* setters were called.
C3_FixedOrder ==
    (Built /\ result = "Ok") =>
        /\ \A i, j \in KeyPositions(out) : i < j => KeyIndex(out[i]) < KeyIndex(out[j])
        /\ \A k \in KeysIn(out) : Cardinality(Positions(out, k)) = 1
        /\ ("with_url" \in setters) =>
               /\ Len(UrlPart(out)) = 1
               /\ out[1] \in Urls

C3_Witness ==
    /\ Built
    /\ Family = "account_token_nft_tx"
    /\ setters = {"with_url", "with_apikey", "with_format"}
    /\ Cat(out) = "http://x?module=account&action=tokennfttx&contractaddress=0x0&address=0xAB&page=10&offset=10&startblock=1&endblock=2&sort=desc&format=raw&apikey=K"

----------------------------------------------------------------------------
(* C4 *)

\* The key of each of the thirteen optional parameters.
FieldKey ==
    [contractaddress |-> "&contractaddress=", address |-> "&address=", tag |-> "&tag=",
     page |-> "&page=", offset |-> "&offset=", startblock |-> "&startblock=",
     endblock |-> "&endblock=", sort |-> "&sort=", txhash |-> "&txhash=",
     blockno |-> "&blockno=", timestamp |-> "&timestamp=", format |-> "&format=",
     apikey |-> "&apikey="]

Count(toks, k) == Cardinality(Positions(toks, k))

\* C4: when build formats a record, a field that is absent contributes no segment at
\* all (no key, not even with an empty value) and a field that is present contributes
\* exactly one segment; the same holds of the base URL and of the module/action pair.
C4_AbsentOmitted ==
    [][(pc = "live" /\ pc' = "done") =>
           LET r == Unwrap(req)
           IN  /\ \A f \in DOMAIN FieldKey :
                      Count(out', FieldKey[f]) = IF IsSome(r[f]) THEN 1 ELSE 0
               /\ \A f \in DOMAIN FieldKey \ {"address"} :
                      IsSome(r[f]) => ValueOf(out', FieldKey[f]) # <<>>
               /\ Count(out', "?module=") = IF IsSome(r.module_action) THEN 1 ELSE 0
               /\ Count(out', "&action=") = IF IsSome(r.module_action) THEN 1 ELSE 0
               /\ UrlPart(out') = IF IsSome(r.url) THEN <<Unwrap(r.url)>> ELSE <<>>]_vars

C4_Witness ==
    /\ Built
    /\ call = <<"account_tx_list", <<171, None, Some(2), None, None, Some(Ascending)>>>>
    /\ setters = {"with_apikey"}
    /\ Cat(out) = "?module=account&action=txlist&address=0xAB&endblock=2&sort=asc&apikey=K"

----------------------------------------------------------------------------
(* C5 *)

\* C5: every record that can be built, the defaulted record with setters applied
\* included, renders as <base_url>?module=<m>&action=<a>[&<param>=<value>]*: module
\* and action are emitted together or not at all, and a parameter segment is only
\* emitted after a ?module=<m>&action=<a> part.
C5_ValidQuery ==
    (Built /\ result = "Ok") =>
        /\ (Positions(out, "?module=") = {}) <=> (Positions(out, "&action=") = {})
        /\ (KeysIn(out) \ {"?module=", "&action="} # {}) =>
               /\ Positions(out, "?module=") = {Len(UrlPart(out)) + 1}
               /\ Positions(out, "&action=")
                      = {Len(UrlPart(out)) + 2 + Len(ValueOf(out, "?module="))}

----------------------------------------------------------------------------
(* C6 *)

\* C6: build returns Ok for every record that can be built and has then passed
\* exactly one URL, the formatted text, to the HTTP client; nothing is passed to the
\* client before build or when build returns an error.
C6_OneGet ==
    /\ Built => /\ result = "Ok"
                /\ Len(gets) = 1
                /\ gets[1] = Cat(out)
                /\ req = None
    /\ ~Built => gets = <<>> /\ result = "none"
    /\ result = "Err" => gets = <<>>

C6_Witness ==
    /\ Built
    /\ Family = "account_token_balance"
    /\ result = "Ok"
    /\ gets = <<"http://y?module=account&action=tokenbalance&contractaddress=0xAB&address=0x0&tag=latest&format=raw">>

----------------------------------------------------------------------------
(* C7 *)

\* C7: account_balance(0xAB, Some(Latest)).with_url("http://x") builds
\* http://x?module=account&action=balance&address=0xAB&tag=latest, and
\* stats_eth_price().with_url("http://x").with_apikey("K") builds
\* http://x?module=stats&action=ethprice&apikey=K.
C7_Examples ==
    [][(pc = "live" /\ pc' = "done") =>
           /\ ( /\ Family = "account_balance"
                /\ Args = <<171, Some(Latest)>>
                /\ setters = {"with_url"}
                /\ Unwrap(req).url = Some("http://x") )
              => gets' = <<"http://x?module=account&action=balance&address=0xAB&tag=latest">>
           /\ ( /\ Family = "stats_eth_price"
                /\ setters = {"with_url", "with_apikey"}
                /\ Unwrap(req).url = Some("http://x")
                /\ Unwrap(req).apikey = Some("K") )
              => gets' = <<"http://x?module=stats&action=ethprice&apikey=K">>]_vars

C7_Witness ==
    /\ Built
    /\ Family = "account_balance"
    /\ Args = <<171, Some(Latest)>>
    /\ setters = {"with_url"}
    /\ gets = <<"http://x?module=account&action=balance&address=0xAB&tag=latest">>

C7_WitnessEthPrice ==
    /\ Built
    /\ Family = "stats_eth_price"
    /\ setters = {"with_url", "with_apikey"}
    /\ gets = <<"http://x?module=stats&action=ethprice&apikey=K">>

----------------------------------------------------------------------------
(* C8 *)

DigitValue(c, digits) == (CHOOSE i \in DOMAIN digits : digits[i] = c) - 1

\* The number a digit text denotes in the base of `digits`.
RECURSIVE Parse(_, _)
Parse(text, digits) ==
    IF text = <<>> THEN 0
    ELSE Parse(SubSeq(text, 1, Len(text) - 1), digits) * Len(digits)
             + DigitValue(text[Len(text)], digits)

\* text is a numeral of v over `digits` without leading zeros.
IsNumeral(text, digits, v) ==
    /\ Len(text) >= 1
    /\ \A i \in DOMAIN text : \E d \in DOMAIN digits : digits[d] = text[i]
    /\ Len(text) > 1 => text[1] # "0"
    /\ Parse(text, digits) = v

IsHexSlot(text, v) ==
    /\ Len(text) >= 2
    /\ text[1] = "0x"
    /\ Count(text, "0x") = 1
    /\ IsNumeral(Tail(text), UpperHexDigits, v)

HexKeys == {"&contractaddress=", "&address=", "&txhash="}
DecKeys == {"&page=", "&offset=", "&startblock=", "&endblock=", "&blockno=", "&timestamp="}

\* The integer slots each constructor of SpecFmt fills with its argument.
SlotsOf ==
    [stats_token_supply |-> {"&contractaddress="},
     account_balance |-> {"&address="},
     transaction_get_status |-> {"&txhash="},
     block_get_countdown |-> {"&blockno="},
     block_get_number_by_timestamp |-> {"&timestamp="},
     account_tx_list |-> {"&address=", "&page=", "&offset=", "&startblock=", "&endblock="}]

\* C8: for every value v of the integer type, zero and the maximum included, build
\* renders v in the contractaddress, address and txhash slots as one 0x followed by
\* the uppercase hexadecimal numeral of v without leading zeros (which reads back as
\* v), and in the page, offset, startblock, endblock, blockno and timestamp slots as
\* the decimal numeral of v without leading zeros, separators or prefix.
C8_NumberText ==
    Built =>
        LET v == Args[1]
        IN  /\ KeysIn(out) \cap (HexKeys \cup DecKeys) = SlotsOf[Family]
            /\ \A k \in KeysIn(out) \cap HexKeys : IsHexSlot(ValueOf(out, k), v)
            /\ \A k \in KeysIn(out) \cap DecKeys : IsNumeral(ValueOf(out, k), DecDigits, v)

C8_Witness ==
    /\ Built
    /\ Family = "account_tx_list"
    /\ Args[1] = 2 ^ 8 - 1
    /\ Cat(out) = "?module=account&action=txlist&address=0xFF&page=255&offset=255&startblock=255&endblock=255"

C8_WitnessZero ==
    /\ Built
    /\ Family = "transaction_get_status"
    /\ Cat(out) = "?module=transaction&action=getstatus&txhash=0x0"

----------------------------------------------------------------------------
(* C9 *)

SetterField == [with_url |-> "url", with_apikey |-> "apikey", with_format |-> "format"]

OtherFields == (DOMAIN FieldKey \ {"format", "apikey"}) \cup {"module_action"}

\* C9: a setter step changes at most its own field (url, apikey or format) and leaves
\* the module/action pair and every other field as they were; the last call for a
\* field wins; and setters of different fields commute, so every order of chaining
\* the three setters gives the same record and the same formatted text.
C9_Setters ==
    [][(pc = "live" /\ pc' = "live") =>
           LET r == Unwrap(req)
               r2 == Unwrap(req')
               changed == {f \in {"url", "apikey", "format"} : r2[f] # r[f]}
           IN  /\ \A f \in OtherFields : r2[f] = r[f]
               /\ Cardinality(changed) <= 1
               /\ \A f \in changed : \E n \in setters' : SetterField[n] = f
               /\ \A a \in Urls \cup {"http://z"}, b \in Urls :
                      with_url(with_url(r, a), b) = with_url(r, b)
               /\ \A a \in ApiKeys \cup {"K2"}, b \in ApiKeys :
                      with_apikey(with_apikey(r, a), b) = with_apikey(r, b)
               /\ \A u \in Urls, k \in ApiKeys, f \in EtherscanFormat :
                      LET ukf == with_format(with_apikey(with_url(r, u), k), f)
                          orders ==
                              {ukf,
                               with_apikey(with_format(with_url(r, u), f), k),
                               with_format(with_url(with_apikey(r, k), u), f),
                               with_url(with_format(with_apikey(r, k), f), u),
                               with_apikey(with_url(with_format(r, f), u), k),
                               with_url(with_apikey(with_format(r, f), k), u)}
                      IN  /\ orders = {ukf}
                          /\ ukf.url = Some(u) /\ ukf.apikey = Some(k) /\ ukf.format = Some(f)
                          /\ \A f2 \in OtherFields : ukf[f2] = r[f2]]_vars

C9_Witness ==
    /\ pc = "live"
    /\ Family = "account_balance"
    /\ setters = {"with_url", "with_apikey", "with_format"}
    /\ Unwrap(req) = [account_balance(171, Some(Latest)) EXCEPT
                          !.url = Some("http://y"),
                          !.apikey = Some("K"),
                          !.format = Some(Raw)]

----------------------------------------------------------------------------
(* C10 *)

\* The k-th smallest element of a set of numbers.
Nth(S, k) == CHOOSE x \in S : Cardinality({y \in S : y < x}) = k - 1

\* The i-th of the pieces that the commas split a text into.
Piece(text, i) ==
    LET commas == Positions(text, ",")
        from == IF i = 1 THEN 1 ELSE Nth(commas, i - 1) + 1
        to == IF i = Cardinality(commas) + 1 THEN Len(text) ELSE Nth(commas, i) - 1
    IN  SubSeq(text, from, to)

\* C10: account_balance_multi(addresses, tag) with n addresses renders exactly one
\* address segment, whose value is the n addresses in input order, duplicates kept,
\* each as 0x and uppercase hexadecimal, separated by n-1 commas with no trailing
\* comma; for the empty list the segment is emitted with an empty value.
C10_AddressList ==
    (Built /\ Family = "account_balance_multi") =>
        LET list == Args[1]
            n == Len(list)
            val == ValueOf(out, "&address=")
        IN  /\ Count(out, "&address=") = 1
            /\ n = 0 => val = <<>>
            /\ n > 0 =>
                   /\ Count(val, ",") = n - 1
                   /\ val[Len(val)] # ","
                   /\ \A i \in 1 .. n : IsHexSlot(Piece(val, i), list[i])

C10_Witness ==
    /\ Built
    /\ Family = "account_balance_multi"
    /\ Args = <<<<171, 171>>, None>>
    /\ Cat(out) = "?module=account&action=balancemulti&address=0xAB,0xAB"

C10_WitnessEmpty ==
    /\ Built
    /\ Family = "account_balance_multi"
    /\ Args[1] = <<>>
    /\ Cat(out) = "?module=account&action=balancemulti&address="

====
